---- MODULE Spec2Model ----
(***************************************************************************)
(* UltraChat frontend: the SSE frame decoder (ApiClient.stream), the chat  *)
(* view's stream interpreter and request lifecycle (processStream,         *)
(* handleSend / handleEditSave / handleRegenerate / handleStop), the       *)
(* tool-call correlator and the voice playback scheduler.                  *)
(*                                                                         *)
(* Text is modelled as a sequence of one-character strings, so that        *)
(* split / startsWith / slice / trim are computed as the code computes     *)
(* them.  Token text, thinking text and the like are sequences of the      *)
(* delivered pieces (concatenation is \o).                                 *)
(***************************************************************************)
EXTENDS Integers, Sequences, FiniteSets, TLC

\* ------------------------------------------------------------------------
\* Bounds
\* ------------------------------------------------------------------------
MaxFrames == 2
MaxRound == 2
MaxToolEvents == 3
MaxReq == 2
MaxEvents == 2
MaxTime == 8
MaxBuffers == 3
MaxContexts == 2
MaxSessions == 2
MaxUtter == 2
MaxVoiceSteps == 9
MaxDenom == 50
MaxNavs == 3
MaxSiblings == 3
MaxDetail == 2
MaxTokens == 2

\* ------------------------------------------------------------------------
\* JavaScript values
\* ------------------------------------------------------------------------
\* undefined / null of a string-valued field
Undef == "<undefined>"

\* JS truthiness of a string-valued field: undefined, null and '' are falsy
Truthy(v) == v # Undef /\ v # ""

\* a || b on string-valued fields
OrElse(a, b) == IF Truthy(a) THEN a ELSE b

\* ------------------------------------------------------------------------
\* Text helpers (String.prototype.*)
\* ------------------------------------------------------------------------
NL == "\n"

Whitespace == {" ", "\t", "\r", NL}

\* s.startsWith(p)
StartsWith(s, p) == Len(s) >= Len(p) /\ SubSeq(s, 1, Len(p)) = p

\* s.slice(n)
Slice(s, n) == SubSeq(s, n + 1, Len(s))

RECURSIVE TrimStart(_)
TrimStart(s) ==
  IF s # <<>> /\ Head(s) \in Whitespace THEN TrimStart(Tail(s)) ELSE s

RECURSIVE TrimEnd(_)
TrimEnd(s) ==
  IF s # <<>> /\ s[Len(s)] \in Whitespace
    THEN TrimEnd(SubSeq(s, 1, Len(s) - 1))
    ELSE s

\* s.trim()
Trim(s) == TrimEnd(TrimStart(s))

\* index of the first "\n" in s, 0 when there is none
RECURSIVE FirstNL(_, _)
FirstNL(s, i) ==
  IF i > Len(s) THEN 0
  ELSE IF s[i] = NL THEN i
  ELSE FirstNL(s, i + 1)

\* s.split('\n'): always at least one element, the last one is the text
\* after the final newline
RECURSIVE Split(_)
Split(s) ==
  LET i == FirstNL(s, 1)
  IN IF i = 0 THEN <<s>>
     ELSE <<SubSeq(s, 1, i - 1)>> \o Split(SubSeq(s, i + 1, Len(s)))

\* a.slice(0, -1): what is left of the array after pop()
ButLast(a) == SubSeq(a, 1, Len(a) - 1)

\* a[a.length - 1]: what pop() returns
Last(a) == a[Len(a)]

\* ------------------------------------------------------------------------
\* JSON.parse on the data strings of the wire alphabet: a run of digits is
\* a JSON number, "{}" is the empty object; everything else throws.
\* ------------------------------------------------------------------------
Digits == {"1", "2"}

JSONValid(d) ==
  \/ d # <<>> /\ \A i \in 1..Len(d) : d[i] \in Digits
  \/ d = <<"{", "}">>

\* try { JSON.parse(data) } catch { { raw: data } }
ParseOrRaw(d) ==
  IF JSONValid(d) THEN [kind |-> "json", text |-> d]
                  ELSE [kind |-> "raw", text |-> d]

\* ------------------------------------------------------------------------
\* Wire input of the decoder: a sequence of frames, each rendered as an
\* optional event: line, an optional data: line and a blank line.
\* ------------------------------------------------------------------------
NoLine == <<"-">>

EventPrefix == <<"e", "v", "e", "n", "t", ":">>
DataPrefix == <<"d", "a", "t", "a", ":">>

EventNames == {<<"a">>, <<"b">>}
DataTexts == {<<"1">>, <<"{">>, <<>>}

FrameSet == [ev : EventNames \cup {NoLine}, data : DataTexts \cup {NoLine}]

RenderFrame(f) ==
  (IF f.ev = NoLine THEN <<>> ELSE EventPrefix \o <<" ">> \o f.ev \o <<NL>>)
  \o (IF f.data = NoLine THEN <<>> ELSE DataPrefix \o <<" ">> \o f.data \o <<NL>>)
  \o <<NL>>

RECURSIVE RenderFrames(_)
RenderFrames(fs) ==
  IF fs = <<>> THEN <<>> ELSE RenderFrame(Head(fs)) \o RenderFrames(Tail(fs))

FrameSeqs == UNION {[1..n -> FrameSet] : n \in 0..MaxFrames}

VARIABLES
  frames,        \* the frames the server wrote (input)
  wire,          \* bytes not yet delivered by reader.read()
  buffer,        \* stream(): let buffer
  lines,         \* stream(): lines of the current chunk not yet walked
  currentEvent,  \* stream(): let currentEvent (null is the empty text)
  out,           \* the pairs yielded so far
  reader         \* "locked" | "released"

sseVars == <<frames, wire, buffer, lines, currentEvent, out, reader>>

VARIABLES
  toolEvents,    \* ChatView: const [toolEvents, setToolEvents] = useState([])
  toolLog        \* the tool status events processed so far, in arrival order

toolVars == <<toolEvents, toolLog>>

VARIABLES
  view,                 \* which ChatView source is mounted
  currentConversation,  \* AppContext: currentConversation?.id
  isGenerating,         \* AppContext: isGenerating
  streamingContent,     \* useState(''): the streamed text on screen
  abortControllerRef,   \* useRef(null): 0 is null, r the controller made by request r
  abortedCtl,           \* the controllers on which abort() was called
  req,                  \* per request: the locals of the handler and of processStream
  nreq,                 \* number of requests started
  nev,                  \* number of stream events handed to processStream
  stopped               \* the requests that were being consumed when the user pressed stop

chatVars == <<view, currentConversation, isGenerating, streamingContent,
              abortControllerRef, abortedCtl, req, nreq, nev, stopped>>

VARIABLES
  impl,             \* which voice component is mounted
  isMuted,          \* VoiceMode: isMuted as captured by ws.onmessage
  audioContextRef,  \* 0 is null, k the k-th AudioContext created
  currentTime,      \* audioContextRef.current.currentTime, in tenths of a second
  nextPlayTimeRef,  \* useRef(0)
  schedule          \* the source.start(...) calls made so far

audioVars == <<impl, isMuted, audioContextRef, currentTime, nextPlayTimeRef, schedule>>

VARIABLES
  voiceImpl,        \* which voice component is mounted
  status,           \* VoiceMode: const [status, setStatus]
  voiceChatActive,  \* VoiceMode.jsx: const [voiceChatActive, setVoiceChatActive]
  wsRef,            \* wsRef.current of the mounted component: 0 is null, s the s-th socket
  sock,             \* per WebSocket: readyState, what was sent on it, what it received
  vadListening,     \* vad.listening per owner of a useMicVAD hook: the microphone is captured
  ctxOf,            \* audioContextRef.current per owner of the ref: 0 is null
  ctxLive,          \* the AudioContexts created and not closed
  teardown,         \* per socket: the release steps taken by the client, in order
  uttered,          \* per socket: the utterances whose speech end found it open
  nctx,             \* number of AudioContexts created
  nvoice,           \* number of handlers of the voice components that ran
  stoppedSess       \* the sockets that were current when the user pressed the stop button

voiceVars == <<voiceImpl, status, voiceChatActive, wsRef, sock, vadListening, ctxOf,
               ctxLive, teardown, uttered, nctx, nvoice, stoppedSess>>

VARIABLES
  httpPath,     \* "request" | "stream" | "legacyStream": the client method called
  httpBody,     \* the body of the non-OK response (input)
  httpStatus,   \* response.status, response.statusText (input)
  httpThrown    \* the message of the Error raised, Undef before the call returns

httpVars == <<httpPath, httpBody, httpStatus, httpThrown>>

VARIABLES
  pcmImpl,      \* which speech encoder runs
  pcmIn,        \* the float sample, in units of 1/pcmDen (input)
  pcmDen,       \* the denominator of the sample (input)
  pcm16,        \* the Int16 written by the encoder, Undef before it ran
  pcmPhase      \* "captured" | "encoded" | "decoded"

pcmVars == <<pcmImpl, pcmIn, pcmDen, pcm16, pcmPhase>>

VARIABLES
  siblings,         \* server: per message position, (current_index, total)
  bubble,           \* MessageBubble instance: branchInfo, isBranchLoading, mounted
  navFlight,        \* navigations issued and not completed: their direction and step
  navLog,           \* navigations issued: direction, the branchInfo on screen, in-flight count
  nnav              \* number of navigations issued

navVars == <<siblings, bubble, navFlight, navLog, nnav>>

VARIABLES
  streamIterator,  \* processStream: the events the iterator has still to yield (input)
  fullContent,     \* processStream: let fullContent
  conversationId,  \* processStream: let conversationId
  consumed,        \* the events the for-await loop has processed, in order
  consumer,        \* "processStream" | "handleStreamEvent": who is handed the events
  loopEnd          \* "none" while the reader is locked, then "thrown" | "returned"

loopVars == <<streamIterator, fullContent, conversationId, consumed, consumer, loopEnd>>

vars == <<sseVars, toolVars, chatVars, audioVars, voiceVars, httpVars, pcmVars, navVars,
          loopVars>>

\* what the steps of one component leave alone
restVars == <<voiceVars, httpVars, pcmVars, navVars, loopVars>>
exceptSse == <<toolVars, chatVars, audioVars, restVars>>
exceptTool == <<sseVars, chatVars, audioVars, restVars>>
exceptChat == <<sseVars, audioVars, restVars>>
exceptAudio == <<sseVars, toolVars, chatVars, restVars>>
coreVars == <<sseVars, toolVars, chatVars, audioVars>>
exceptVoice == <<coreVars, httpVars, pcmVars, navVars, loopVars>>
exceptHttp == <<coreVars, voiceVars, pcmVars, navVars, loopVars>>
exceptPcm == <<coreVars, voiceVars, httpVars, navVars, loopVars>>
exceptNav == <<coreVars, voiceVars, httpVars, pcmVars, loopVars>>
exceptLoop == <<coreVars, voiceVars, httpVars, pcmVars, navVars>>

\* ------------------------------------------------------------------------
\* ApiClient.stream
\* ------------------------------------------------------------------------
SseIdle ==
  /\ frames = <<>>
  /\ wire = <<>>
  /\ buffer = <<>>
  /\ lines = <<>>
  /\ currentEvent = <<>>
  /\ out = <<>>
  /\ reader = "released"

SseInit ==
  /\ frames \in FrameSeqs
  /\ wire = RenderFrames(frames)
  /\ buffer = <<>>
  /\ lines = <<>>
  /\ currentEvent = <<>>
  /\ out = <<>>
  /\ reader = "locked"

\* the body of the for loop for one line: the new currentEvent and the
\* pairs yielded (none or one)
WalkLine(line, ce) ==
  IF StartsWith(line, EventPrefix)
    THEN [ce |-> Trim(Slice(line, 6)), yield |-> <<>>]
  ELSE IF StartsWith(line, DataPrefix)
    THEN LET data == Trim(Slice(line, 5))
         IN IF ce # <<>> /\ data # <<>>
              THEN [ce |-> <<>>,
                    yield |-> <<[event |-> ce, data |-> ParseOrRaw(data)]>>]
              ELSE [ce |-> ce, yield |-> <<>>]
  ELSE [ce |-> ce, yield |-> <<>>]

\* reader.read() resolves with a chunk of n characters
SseRead(n) ==
  /\ reader = "locked"
  /\ lines = <<>>
  /\ n \in 1..Len(wire)
  /\ LET text == buffer \o SubSeq(wire, 1, n)
         parts == Split(text)
     IN /\ buffer' = Last(parts)
        /\ lines' = ButLast(parts)
  /\ wire' = SubSeq(wire, n + 1, Len(wire))
  /\ currentEvent' = <<>>
  /\ UNCHANGED <<frames, out, reader>>
  /\ UNCHANGED exceptSse

\* one iteration of for (const line of lines)
SseLine ==
  /\ reader = "locked"
  /\ lines # <<>>
  /\ LET w == WalkLine(Head(lines), currentEvent)
     IN /\ currentEvent' = w.ce
        /\ out' = out \o w.yield
  /\ lines' = Tail(lines)
  /\ UNCHANGED <<frames, wire, buffer, reader>>
  /\ UNCHANGED exceptSse

\* reader.read() resolves with done: break, finally releaseLock()
SseEnd ==
  /\ reader = "locked"
  /\ lines = <<>>
  /\ wire = <<>>
  /\ reader' = "released"
  /\ UNCHANGED <<frames, wire, buffer, lines, currentEvent, out>>
  /\ UNCHANGED exceptSse

SseNext ==
  \/ \E n \in 1..Len(wire) : SseRead(n)
  \/ SseLine
  \/ SseEnd

\* ------------------------------------------------------------------------
\* processStream: tool-call / thinking correlation (status events)
\* ------------------------------------------------------------------------
Tools == {"search", "calc"}
Deltas == {"x", "y", ""}
ArgValues == {"q", Undef}
RoundInputs == 0..MaxRound

\* the (result, result_preview) fields a tool_result event can carry
ResultFields ==
  {<<"r1", Undef>>, <<"r2", Undef>>, <<"", Undef>>, <<Undef, "p">>, <<Undef, Undef>>}

\* data.round || 1
RoundOf(round) == IF round = 0 THEN 1 ELSE round

\* data.result || data.result_preview || ''
ResultOf(rf) == OrElse(OrElse(rf[1], rf[2]), "")

\* [...a].reverse().findIndex(P) turned back into an index of a
\* (0 when nothing matches): the last index whose item satisfies P
LastIndex(a, P(_)) ==
  LET S == {i \in 1..Len(a) : P(a[i])}
  IN IF S = {} THEN 0 ELSE CHOOSE i \in S : \A j \in S : j <= i

\* a.findIndex(P): the first index whose item satisfies P, 0 when none
FirstIndex(a, P(_)) ==
  LET S == {i \in 1..Len(a) : P(a[i])}
  IN IF S = {} THEN 0 ELSE CHOOSE i \in S : \A j \in S : i <= j

\* a.splice(i, 1)
RemoveAt(a, i) == SubSeq(a, 1, i - 1) \o SubSeq(a, i + 1, Len(a))

\* the items of the tool-event list; a field the code does not set on an
\* item is Undef (thinking: the empty text)
ToolItem(type, tool, round, thinking, arguments, result, st) ==
  [type |-> type, tool |-> tool, round |-> round, thinking |-> thinking,
   arguments |-> arguments, result |-> result, status |-> st]

\* setToolEvents updater of a tool_thinking_delta event
OnThinkingDelta(prev, round, delta) ==
  LET IsPending(item) == item.type = "thinking_pending" /\ item.round = round
      targetIndex == LastIndex(prev, IsPending)
  IN IF targetIndex # 0
       THEN [prev EXCEPT ![targetIndex].thinking = @ \o <<delta>>]
       ELSE Append(prev, ToolItem("thinking_pending", Undef, round, <<delta>>,
                                  Undef, Undef, Undef))

\* a tool_call updater that copies the pending thinking and leaves the
\* placeholder in the list
OnToolCallKeepPending(prev, tool, arguments, round) ==
  LET IsPending(item) == item.type = "thinking_pending" /\ item.round = round
      thinkingIndex == FirstIndex(prev, IsPending)
      thinkingContent == IF thinkingIndex # 0 THEN prev[thinkingIndex].thinking
                                              ELSE <<>>
  IN Append(prev, ToolItem("call", tool, round, thinkingContent,
                           OrElse(arguments, "{}"), Undef, Undef))

\* setToolEvents updater of a tool_call event
OnToolCall(prev, tool, arguments, round) ==
  LET IsPending(item) == item.type = "thinking_pending" /\ item.round = round
      thinkingIndex == FirstIndex(prev, IsPending)
      thinkingContent == IF thinkingIndex # 0 THEN prev[thinkingIndex].thinking
                                              ELSE <<>>
      updated == IF thinkingIndex # 0 THEN RemoveAt(prev, thinkingIndex) ELSE prev
  IN Append(updated, ToolItem("call", tool, round, thinkingContent,
                              OrElse(arguments, "{}"), Undef, Undef))

\* setToolEvents updater of a tool_result event
OnToolResult(prev, tool, rf, round) ==
  LET IsOpenCall(item) ==
        item.type = "call" /\ item.tool = tool /\ ~Truthy(item.result)
      targetIndex == LastIndex(prev, IsOpenCall)
  IN IF targetIndex # 0
       THEN [prev EXCEPT ![targetIndex].result = ResultOf(rf),
                         ![targetIndex].status = "complete"]
       ELSE Append(prev, ToolItem("result", tool, RoundOf(round), <<>>,
                                  Undef, ResultOf(rf), Undef))

ToolIdle ==
  /\ toolEvents = <<>>
  /\ toolLog = <<>>

ToolInit == ToolIdle

\* status event { status: 'tool_thinking_delta', round, delta }
ThinkingDelta(round, delta) ==
  /\ Len(toolLog) < MaxToolEvents
  /\ toolEvents' = IF delta # "" THEN OnThinkingDelta(toolEvents, RoundOf(round), delta)
                                 ELSE toolEvents
  /\ toolLog' = Append(toolLog, [status |-> "tool_thinking_delta", tool |-> Undef,
                                 round |-> RoundOf(round), delta |-> delta,
                                 result |-> Undef])
  /\ UNCHANGED exceptTool

\* status event { status: 'tool_call', tool, arguments, round }
ToolCall(tool, arguments, round) ==
  /\ Len(toolLog) < MaxToolEvents
  /\ toolEvents' = OnToolCall(toolEvents, tool, arguments, RoundOf(round))
  /\ toolLog' = Append(toolLog, [status |-> "tool_call", tool |-> tool,
                                 round |-> RoundOf(round), delta |-> "",
                                 result |-> Undef])
  /\ UNCHANGED exceptTool

\* status event { status: 'tool_result', tool, result, result_preview, round }
ToolResult(tool, rf, round) ==
  /\ Len(toolLog) < MaxToolEvents
  /\ toolEvents' = OnToolResult(toolEvents, tool, rf, round)
  /\ toolLog' = Append(toolLog, [status |-> "tool_result", tool |-> tool,
                                 round |-> RoundOf(round), delta |-> "",
                                 result |-> ResultOf(rf)])
  /\ UNCHANGED exceptTool

ToolNext ==
  \/ \E r \in RoundInputs, d \in Deltas : ThinkingDelta(r, d)
  \/ \E t \in Tools, a \in ArgValues, r \in RoundInputs : ToolCall(t, a, r)
  \/ \E t \in Tools, rf \in ResultFields, r \in RoundInputs : ToolResult(t, rf, r)

\* ------------------------------------------------------------------------
\* ChatView: request lifecycle (handleSend, handleEditSave, handleRegenerate,
\* handleStop) and processStream
\* ------------------------------------------------------------------------
\* "ChatView": the component with processStream (send / edit / regenerate);
\* "ChatViewV1": the component whose handleSend reads the stream inline
Views == {"ChatView", "ChatViewV1"}

ReqIds == 1..MaxReq
ConvIds == {"c1", "c2"}

\* the (token, content) fields a token event can carry
TokenFields == {<<"He", Undef>>, <<Undef, "llo">>, <<Undef, Undef>>}

\* the payloads an error event can carry: { error }, { message }, and
\* { raw } when the data line was not JSON
ErrorPayloads ==
  { [error |-> "boom", message |-> Undef, raw |-> Undef],
    [error |-> Undef, message |-> "boom", raw |-> Undef],
    [error |-> Undef, message |-> Undef, raw |-> "boom"],
    [error |-> Undef, message |-> Undef, raw |-> Undef] }

\* the text the backend put in an error payload
BackendText(data) == OrElse(OrElse(data.error, data.message), data.raw)

NewReq ==
  [st |-> "new", kind |-> "none", signal |-> FALSE, fullContent |-> <<>>,
   conversationId |-> Undef, firstId |-> Undef, outcome |-> "none",
   toast |-> Undef, sent |-> Undef]

\* the request is between its start and the end of its finally block
Active(r) == req[r].st \in {"reading", "loading", "draining"}

\* the stream of r can hand the next decoded event to the for-await loop
CanYield(r) == req[r].st \in {"reading", "draining"} /\ nev < MaxEvents

ChatIdle ==
  /\ view = "ChatView"
  /\ currentConversation = Undef
  /\ isGenerating = FALSE
  /\ streamingContent = <<>>
  /\ abortControllerRef = 0
  /\ abortedCtl = {}
  /\ req = [r \in ReqIds |-> NewReq]
  /\ nreq = 0
  /\ nev = 0
  /\ stopped = {}

ChatInit ==
  /\ view \in Views
  /\ currentConversation \in {Undef, "c1"}
  /\ isGenerating = FALSE
  /\ streamingContent = <<>>
  /\ abortControllerRef = 0
  /\ abortedCtl = {}
  /\ req = [r \in ReqIds |-> NewReq]
  /\ nreq = 0
  /\ nev = 0
  /\ stopped = {}

\* data.token || '': the content field left out
TokenOnly(tf) == OrElse(tf[1], "")

\* data.token || data.content || ''
TokenText(tf) == OrElse(OrElse(tf[1], tf[2]), "")

\* fullContent += piece
AppendText(text, piece) == IF piece = "" THEN text ELSE Append(text, piece)

\* throw new Error(data.error || 'Generation failed')
ThrownMessage(data) == OrElse(data.error, "Generation failed")

\* the catch block without its AbortError test
CatchToastAlways(name, message, fallback) == OrElse(message, fallback)

\* catch (error) { if (error.name !== 'AbortError') toast.error(error.message || fallback) }
CatchToast(name, message, fallback) ==
  IF name # "AbortError" THEN OrElse(message, fallback) ELSE Undef

\* the fallback text of the catch block of each handler
Fallback(kind) ==
  CASE kind = "send" -> "Failed to send message"
    [] kind = "edit" -> "Failed to edit message"
    [] OTHER -> "Failed to regenerate response"

\* a handler that leaves the tool-event list as it finds it
KeepToolEvents(prev) == prev

\* setToolEvents([])
ResetToolEvents(prev) == <<>>

\* try { ... } up to the first await: a fresh AbortController in the ref and
\* the request on the wire; only ChatView passes the controller's signal
StartRequest(kind) ==
  /\ nreq < MaxReq
  /\ nreq' = nreq + 1
  /\ isGenerating' = TRUE
  /\ streamingContent' = <<>>
  /\ abortControllerRef' = nreq + 1
  /\ req' = [req EXCEPT ![nreq + 1] =
                [NewReq EXCEPT !.st = "reading", !.kind = kind,
                               !.signal = (view = "ChatView"),
                               !.conversationId = currentConversation]]
  /\ toolEvents' = IF view = "ChatView" THEN ResetToolEvents(toolEvents) ELSE toolEvents
  /\ UNCHANGED <<view, currentConversation, abortedCtl, stopped, nev, toolLog>>
  /\ UNCHANGED exceptChat

handleSend ==
  /\ ~isGenerating
  /\ StartRequest("send")

handleEditSave ==
  /\ view = "ChatView"
  /\ StartRequest("edit")

handleRegenerate ==
  /\ view = "ChatView"
  /\ StartRequest("regen")

\* catch and finally of the handler that awaits request r: the request ends
\* with an error of the given name and message (name "none": no error)
Settle(r, name, message, sent) ==
  /\ req' = [req EXCEPT ![r] =
                [NewReq EXCEPT !.st = "ended", !.outcome = name, !.sent = sent,
                               !.toast = IF name = "none" THEN Undef
                                         ELSE CatchToast(name, message,
                                                         Fallback(req[r].kind))]]
  /\ isGenerating' = FALSE
  /\ streamingContent' = <<>>
  /\ abortControllerRef' = 0

\* event 'start'
StartEv(r, cid) ==
  /\ CanYield(r)
  /\ nev' = nev + 1
  /\ req' = [req EXCEPT ![r].conversationId = cid,
                        ![r].firstId = IF Truthy(@) THEN @ ELSE cid]
  /\ UNCHANGED <<view, currentConversation, isGenerating, streamingContent,
                 abortControllerRef, abortedCtl, nreq, stopped, toolVars>>
  /\ UNCHANGED exceptChat

\* event 'status' carrying a conversation id (ChatView only)
StatusEv(r, cid) ==
  /\ CanYield(r)
  /\ nev' = nev + 1
  /\ view = "ChatView"
  /\ Truthy(cid)
  /\ req' = [req EXCEPT ![r].conversationId = cid,
                        ![r].firstId = IF Truthy(@) THEN @ ELSE cid]
  /\ currentConversation' = cid
  /\ UNCHANGED <<view, isGenerating, streamingContent,
                 abortControllerRef, abortedCtl, nreq, stopped, toolVars>>
  /\ UNCHANGED exceptChat

\* event 'status' carrying { status: 'tool_call', tool } and no conversation
\* id (ChatView only)
ToolStatusEv(r, tool) ==
  /\ CanYield(r)
  /\ nev' = nev + 1
  /\ view = "ChatView"
  /\ toolEvents' = OnToolCall(toolEvents, tool, Undef, RoundOf(0))
  /\ toolLog' = Append(toolLog, [status |-> "tool_call", tool |-> tool,
                                 round |-> RoundOf(0), delta |-> "",
                                 result |-> Undef])
  /\ UNCHANGED <<view, currentConversation, isGenerating, streamingContent,
                 abortControllerRef, abortedCtl, req, nreq, stopped>>
  /\ UNCHANGED exceptChat

\* event 'token'
TokenEv(r, tf) ==
  /\ CanYield(r)
  /\ nev' = nev + 1
  /\ LET text == AppendText(req[r].fullContent, TokenText(tf))
     IN /\ req' = [req EXCEPT ![r].fullContent = text]
        /\ streamingContent' = text
  /\ UNCHANGED <<view, currentConversation, isGenerating,
                 abortControllerRef, abortedCtl, nreq, stopped, toolVars>>
  /\ UNCHANGED exceptChat

\* event 'done' up to its first await: with a conversation id the loop
\* suspends in loadConversation, without one it clears the tool events and
\* goes on
DoneEv(r, cid) ==
  /\ CanYield(r)
  /\ nev' = nev + 1
  /\ LET takes == view = "ChatView" /\ Truthy(cid)
         id == IF takes THEN cid ELSE req[r].conversationId
     IN /\ req' = [req EXCEPT ![r].conversationId = id,
                              ![r].firstId = IF Truthy(@) \/ view # "ChatView" THEN @ ELSE cid,
                              ![r].st = IF Truthy(id) THEN "loading" ELSE @]
        /\ currentConversation' = IF takes THEN cid ELSE currentConversation
        /\ toolEvents' = IF Truthy(id) \/ view # "ChatView"
                            THEN toolEvents ELSE ResetToolEvents(toolEvents)
  /\ UNCHANGED <<view, isGenerating, streamingContent, abortControllerRef,
                 abortedCtl, nreq, stopped, toolLog>>
  /\ UNCHANGED exceptChat

\* loadConversation / loadConversations have resolved: the rest of the done
\* branch; a stream whose signal was aborted meanwhile only has the lines
\* of its current chunk left
LoadReturn(r) ==
  /\ req[r].st = "loading"
  /\ req' = [req EXCEPT ![r].st = IF req[r].signal /\ r \in abortedCtl
                                    THEN "draining" ELSE "reading"]
  /\ toolEvents' = IF view = "ChatView" THEN ResetToolEvents(toolEvents) ELSE toolEvents
  /\ UNCHANGED <<view, currentConversation, isGenerating, streamingContent,
                 abortControllerRef, abortedCtl, nreq, nev, stopped, toolLog>>
  /\ UNCHANGED exceptChat

\* event 'error': processStream throws, the handler catches
ErrorEv(r, data) ==
  /\ CanYield(r)
  /\ nev' = nev + 1
  /\ Settle(r, "Error", ThrownMessage(data), BackendText(data))
  /\ UNCHANGED <<view, currentConversation, abortedCtl, nreq, stopped, toolVars>>
  /\ UNCHANGED exceptChat

\* fetch or reader.read() rejects with a network failure
NetworkError(r) ==
  /\ req[r].st = "reading"
  /\ Settle(r, "TypeError", "Failed to fetch", Undef)
  /\ UNCHANGED <<view, currentConversation, abortedCtl, nreq, nev, stopped, toolVars>>
  /\ UNCHANGED exceptChat

\* reader.read() resolves with done: processStream returns
StreamEnd(r) ==
  /\ req[r].st = "reading"
  /\ Settle(r, "none", Undef, Undef)
  /\ UNCHANGED <<view, currentConversation, abortedCtl, nreq, nev, stopped, toolVars>>
  /\ UNCHANGED exceptChat

\* the next reader.read() of an aborted stream rejects with AbortError
AbortRejects(r) ==
  /\ req[r].st = "draining"
  /\ Settle(r, "AbortError", "The operation was aborted.", Undef)
  /\ UNCHANGED <<view, currentConversation, abortedCtl, nreq, nev, stopped, toolVars>>
  /\ UNCHANGED exceptChat

\* the stop button (rendered while isGenerating).  abort() rejects the
\* pending fetch / read of the stream that holds the signal, and that
\* request's catch and finally run before any other event is handled.
handleStop ==
  /\ isGenerating
  /\ abortedCtl' = IF abortControllerRef = 0 THEN abortedCtl
                   ELSE abortedCtl \cup {abortControllerRef}
  /\ stopped' = stopped \cup {r \in ReqIds : Active(r)}
  /\ isGenerating' = FALSE
  /\ streamingContent' = <<>>
  /\ IF /\ abortControllerRef # 0
        /\ req[abortControllerRef].signal
        /\ req[abortControllerRef].st = "reading"
       THEN /\ req' = [req EXCEPT ![abortControllerRef] =
                         [NewReq EXCEPT
                            !.st = "ended", !.outcome = "AbortError",
                            !.toast = CatchToast("AbortError", "The operation was aborted.",
                                                 Fallback(req[abortControllerRef].kind))]]
            /\ abortControllerRef' = 0
       ELSE UNCHANGED <<req, abortControllerRef>>
  /\ UNCHANGED <<view, currentConversation, nreq, nev, toolVars>>
  /\ UNCHANGED exceptChat

ChatNext ==
  \/ handleSend
  \/ handleEditSave
  \/ handleRegenerate
  \/ handleStop
  \/ \E r \in ReqIds, cid \in ConvIds \cup {Undef} : StartEv(r, cid)
  \/ \E r \in ReqIds, cid \in ConvIds : StatusEv(r, cid)
  \/ \E r \in ReqIds, tf \in TokenFields : TokenEv(r, tf)
  \/ \E r \in ReqIds, cid \in ConvIds \cup {Undef} : DoneEv(r, cid)
  \/ \E r \in ReqIds : LoadReturn(r)
  \/ \E r \in ReqIds, data \in ErrorPayloads : ErrorEv(r, data)
  \/ \E r \in ReqIds : NetworkError(r)
  \/ \E r \in ReqIds : StreamEnd(r)
  \/ \E r \in ReqIds : AbortRejects(r)

\* the same with tool_call status events in the streams
ChatToolsNext ==
  \/ ChatNext
  \/ \E r \in ReqIds, tool \in Tools : ToolStatusEv(r, tool)

\* ------------------------------------------------------------------------
\* Voice playback: VoiceChatSession.playAudio and VoiceMode.playAudioChunk
\* ------------------------------------------------------------------------
VoiceImpls == {"VoiceChatSession", "VoiceMode"}

\* buffer.duration of the audio messages, in tenths of a second
Durations == {2, 5}

Max(a, b) == IF a >= b THEN a ELSE b

\* the start time without the cursor: every buffer starts at once
PlayStartNow(now, next) == now

\* VoiceChatSession.playAudio:
\*   Math.max(audioContextRef.current.currentTime, nextPlayTimeRef.current)
PlayStart(now, next) == Max(now, next)

\* VoiceMode.playAudioChunk:
\*   if (nextPlayTimeRef.current < ctx.currentTime) nextPlayTimeRef.current = ctx.currentTime
ChunkStart(now, next) == IF next < now THEN now ELSE next

AudioIdle ==
  /\ impl = "VoiceChatSession"
  /\ isMuted = FALSE
  /\ audioContextRef = 0
  /\ currentTime = 0
  /\ nextPlayTimeRef = 0
  /\ schedule = <<>>

AudioInit ==
  /\ impl \in VoiceImpls
  /\ isMuted \in (IF impl = "VoiceMode" THEN BOOLEAN ELSE {FALSE})
  /\ audioContextRef = 0
  /\ currentTime = 0
  /\ nextPlayTimeRef = 0
  /\ schedule = <<>>

\* message { type: 'ready' }: VoiceChatSession creates the AudioContext only
\* when it has none, VoiceMode creates one on every ready; the cursor is set
\* to the new context's currentTime (a new context's clock starts at 0)
OnReady ==
  /\ audioContextRef < MaxContexts
  /\ IF impl = "VoiceMode" \/ audioContextRef = 0
       THEN /\ audioContextRef' = audioContextRef + 1
            /\ currentTime' = 0
            /\ nextPlayTimeRef' = 0
       ELSE UNCHANGED <<audioContextRef, currentTime, nextPlayTimeRef>>
  /\ UNCHANGED <<impl, isMuted, schedule>>
  /\ UNCHANGED exceptAudio

\* message { type: 'audio' } carrying a buffer of duration d
OnAudio(d) ==
  /\ Len(schedule) < MaxBuffers
  /\ IF audioContextRef = 0 \/ (impl = "VoiceMode" /\ isMuted)
       THEN UNCHANGED <<nextPlayTimeRef, schedule>>
       ELSE LET startTime == IF impl = "VoiceMode"
                               THEN ChunkStart(currentTime, nextPlayTimeRef)
                               ELSE PlayStart(currentTime, nextPlayTimeRef)
            IN /\ schedule' = Append(schedule, [ctx |-> audioContextRef,
                                                at |-> currentTime,
                                                start |-> startTime,
                                                duration |-> d])
               /\ nextPlayTimeRef' = startTime + d
  /\ UNCHANGED <<impl, isMuted, audioContextRef, currentTime>>
  /\ UNCHANGED exceptAudio

\* the output device's clock advances
Tick ==
  /\ audioContextRef # 0
  /\ currentTime < MaxTime
  /\ currentTime' = currentTime + 1
  /\ UNCHANGED <<impl, isMuted, audioContextRef, nextPlayTimeRef, schedule>>
  /\ UNCHANGED exceptAudio

AudioNext ==
  \/ OnReady
  \/ \E d \in Durations : OnAudio(d)
  \/ Tick

\* ------------------------------------------------------------------------
\* Voice session: VoiceMode with VoiceChatSession (VoiceMode.jsx, part_006)
\* and the VoiceMode that holds the socket itself (lib/api.js)
\* ------------------------------------------------------------------------
SockIds == 1..MaxSessions

\* owners of a ref or of a useMicVAD hook: 0 is the VoiceMode component of
\* lib/api.js, s is the VoiceChatSession instance that created socket s
Owners == 0..MaxSessions

Utterances == {"u1", "u2"}

\* the statuses for which the call controls (and VoiceChatSession) are rendered
VisibleStatuses == {"ready", "listening", "processing", "speaking", "connecting"}

Msg(type, audio) == [type |-> type, audio |-> audio]

NoSock ==
  [readyState |-> "none", sent |-> <<>>, opened |-> FALSE, gotReady |-> FALSE,
   timer |-> FALSE, closureStatus |-> "ready"]

\* voiceAPI.createVoiceChatSocket(); VoiceChatSession arms the 5 s timer,
\* VoiceMode's handlers close over the status of the render that started it
NewSock(st) ==
  [NoSock EXCEPT !.readyState = "CONNECTING",
                 !.timer = (voiceImpl = "VoiceChatSession"),
                 !.closureStatus = st]

Used(sk) == Cardinality({s \in SockIds : sk[s].readyState # "none"})

\* ws.send on an open socket; on a closing or closed socket the data is dropped
WsSend(sk, s, m) ==
  IF sk[s].readyState = "OPEN" THEN [sk EXCEPT ![s].sent = Append(@, m)] ELSE sk

\* ws.close()
WsClose(sk, s) ==
  IF sk[s].readyState \in {"CONNECTING", "OPEN"}
  THEN [sk EXCEPT ![s].readyState = "CLOSING"] ELSE sk

\* the name of the control message that ends an utterance
EndOfSpeech == IF voiceImpl = "VoiceChatSession" THEN "end_speech" ELSE "speech_end"

\* what ws.onopen sends
OpenSendsNothing(sent) == sent

OpenSends(sent) == Append(sent, Msg("config", ""))

\* what the speech-end callback sends for the utterance u
SpeechEndAudioOnly(u) == <<Msg("binary", u)>>

SpeechEndSends(u) == <<Msg("binary", u), Msg(EndOfSpeech, "")>>

VoiceIdle ==
  /\ voiceImpl = "VoiceChatSession"
  /\ status = "ready"
  /\ voiceChatActive = FALSE
  /\ wsRef = 0
  /\ sock = [s \in SockIds |-> NoSock]
  /\ vadListening = [o \in Owners |-> FALSE]
  /\ ctxOf = [o \in Owners |-> 0]
  /\ ctxLive = {}
  /\ teardown = [s \in SockIds |-> <<>>]
  /\ uttered = [s \in SockIds |-> <<>>]
  /\ nctx = 0
  /\ nvoice = 0
  /\ stoppedSess = {}

\* VoiceMode is open and loadVoiceStatus has answered: status is 'ready'
VoiceInit ==
  /\ voiceImpl \in VoiceImpls
  /\ status = "ready"
  /\ voiceChatActive = FALSE
  /\ wsRef = 0
  /\ sock = [s \in SockIds |-> NoSock]
  /\ vadListening = [o \in Owners |-> FALSE]
  /\ ctxOf = [o \in Owners |-> 0]
  /\ ctxLive = {}
  /\ teardown = [s \in SockIds |-> <<>>]
  /\ uttered = [s \in SockIds |-> <<>>]
  /\ nctx = 0
  /\ nvoice = 0
  /\ stoppedSess = {}

\* The state after a handler and the render it causes.  VoiceMode.jsx renders
\* VoiceChatSession only while voiceChatActive and the status is a visible
\* one: leaving that unmounts the instance (its cleanup closes the socket if
\* it is OPEN and closes the AudioContext, then VADInitializer's cleanup
\* pauses the VAD); entering it mounts a new instance, which opens a socket.
Commit(st, act, sk, vl, ac, live, td, ws) ==
  LET show == act /\ st \in VisibleStatuses IN
  /\ nvoice < MaxVoiceSteps
  /\ nvoice' = nvoice + 1
  /\ status' = st
  /\ voiceChatActive' = act
  /\ ctxOf' = ac
  /\ IF voiceImpl = "VoiceChatSession" /\ ws # 0 /\ ~show
     THEN /\ wsRef' = 0
          /\ sock' = IF sk[ws].readyState = "OPEN" THEN WsClose(sk, ws) ELSE sk
          /\ ctxLive' = live \ {ac[ws]}
          /\ vadListening' = [vl EXCEPT ![ws] = FALSE]
          /\ teardown' = [td EXCEPT ![ws] =
                @ \o (IF sk[ws].readyState = "OPEN" THEN <<"socket">> ELSE <<>>)
                  \o (IF ac[ws] # 0 THEN <<"context">> ELSE <<>>)
                  \o (IF vl[ws] THEN <<"capture">> ELSE <<>>)]
     ELSE IF voiceImpl = "VoiceChatSession" /\ ws = 0 /\ show
     THEN /\ Used(sk) < MaxSessions
          /\ wsRef' = Used(sk) + 1
          /\ sock' = [sk EXCEPT ![Used(sk) + 1] = NewSock(st)]
          /\ ctxLive' = live
          /\ vadListening' = vl
          /\ teardown' = td
     ELSE /\ wsRef' = ws
          /\ sock' = sk
          /\ ctxLive' = live
          /\ vadListening' = vl
          /\ teardown' = td

\* a handler that only changes the status and the sockets
SetStatus(st, sk) ==
  Commit(st, voiceChatActive, sk, vadListening, ctxOf, ctxLive, teardown, wsRef)

\* the call button.  VoiceMode.jsx shows it while ~voiceChatActive and asks
\* for the microphone first; lib/api.js shows it while status is 'ready'.
startVoiceChat ==
  /\ status \in VisibleStatuses
  /\ IF voiceImpl = "VoiceChatSession"
     THEN /\ ~voiceChatActive
          /\ \E granted \in BOOLEAN :
               IF granted
               THEN Commit("connecting", TRUE, sock, vadListening, ctxOf, ctxLive,
                           teardown, wsRef)
               ELSE SetStatus("error", sock)
     ELSE /\ status = "ready"
          /\ Used(sock) < MaxSessions
          /\ Commit("connecting", voiceChatActive,
                    [sock EXCEPT ![Used(sock) + 1] = NewSock(status)],
                    vadListening, ctxOf, ctxLive, teardown, Used(sock) + 1)
  /\ UNCHANGED <<voiceImpl, uttered, nctx, stoppedSess>>
  /\ UNCHANGED exceptVoice

\* useMicVAD({ startOnLoad: true }) of a mounted VADInitializer starts listening
VadLoaded ==
  /\ voiceImpl = "VoiceChatSession"
  /\ wsRef # 0
  /\ ~vadListening[wsRef]
  /\ nvoice < MaxVoiceSteps
  /\ nvoice' = nvoice + 1
  /\ vadListening' = [vadListening EXCEPT ![wsRef] = TRUE]
  /\ UNCHANGED <<voiceImpl, status, voiceChatActive, wsRef, sock, ctxOf, ctxLive,
                 teardown, uttered, nctx, stoppedSess>>
  /\ UNCHANGED exceptVoice

\* ws.onopen
OnOpen(s) ==
  /\ sock[s].readyState = "CONNECTING"
  /\ SetStatus(status, [sock EXCEPT ![s].readyState = "OPEN", ![s].opened = TRUE,
                                    ![s].timer = FALSE,
                                    ![s].sent = OpenSends(@)])
  /\ UNCHANGED <<voiceImpl, uttered, nctx, stoppedSess>>
  /\ UNCHANGED exceptVoice

\* the 5 s timer of initWebSocket: reject(...), which the caller only logs
OnTimeout(s) ==
  /\ sock[s].timer
  /\ SetStatus(status, [sock EXCEPT ![s].timer = FALSE])
  /\ UNCHANGED <<voiceImpl, uttered, nctx, stoppedSess>>
  /\ UNCHANGED exceptVoice

\* message { type: 'ready' }
VoiceReady(s) ==
  /\ sock[s].readyState = "OPEN"
  /\ LET sk == [sock EXCEPT ![s].gotReady = TRUE] IN
     IF voiceImpl = "VoiceChatSession"
     THEN IF ctxOf[s] = 0
          THEN /\ nctx < MaxContexts
               /\ nctx' = nctx + 1
               /\ Commit("ready", voiceChatActive, sk, vadListening,
                         [ctxOf EXCEPT ![s] = nctx + 1], ctxLive \cup {nctx + 1},
                         teardown, wsRef)
          ELSE /\ nctx' = nctx
               /\ SetStatus("ready", sk)
     ELSE /\ nctx < MaxContexts
          /\ nctx' = nctx + 1
          /\ Commit("listening", voiceChatActive, sk,
                    [vadListening EXCEPT ![0] = TRUE],
                    [ctxOf EXCEPT ![0] = nctx + 1], ctxLive \cup {nctx + 1},
                    teardown, wsRef)
  /\ UNCHANGED <<voiceImpl, uttered, stoppedSess>>
  /\ UNCHANGED exceptVoice

\* message { type: 'llm_token' }
VoiceToken(s) ==
  /\ sock[s].readyState = "OPEN"
  /\ voiceImpl = "VoiceMode"
  /\ SetStatus("processing", sock)
  /\ UNCHANGED <<voiceImpl, uttered, nctx, stoppedSess>>
  /\ UNCHANGED exceptVoice

\* message { type: 'audio' }
VoiceAudio(s) ==
  /\ sock[s].readyState = "OPEN"
  /\ voiceImpl = "VoiceChatSession" => ctxOf[s] # 0
  /\ SetStatus("speaking", sock)
  /\ UNCHANGED <<voiceImpl, uttered, nctx, stoppedSess>>
  /\ UNCHANGED exceptVoice

\* message { type: 'done' }
VoiceDone(s) ==
  /\ sock[s].readyState = "OPEN"
  /\ SetStatus("ready", sock)
  /\ UNCHANGED <<voiceImpl, uttered, nctx, stoppedSess>>
  /\ UNCHANGED exceptVoice

\* message { type: 'error' }
VoiceError(s) ==
  /\ sock[s].readyState = "OPEN"
  /\ SetStatus("error", sock)
  /\ UNCHANGED <<voiceImpl, uttered, nctx, stoppedSess>>
  /\ UNCHANGED exceptVoice

\* ws.onerror: the connection failed; the close event follows
OnSockError(s) ==
  /\ sock[s].readyState \in {"CONNECTING", "OPEN"}
  /\ SetStatus("error", [sock EXCEPT ![s].readyState = "CLOSING"])
  /\ UNCHANGED <<voiceImpl, uttered, nctx, stoppedSess>>
  /\ UNCHANGED exceptVoice

\* ws.onclose: VoiceChatSession logs; VoiceMode tests the status it closed over
OnCloseStatus(s) ==
  IF voiceImpl = "VoiceMode" /\ sock[s].closureStatus # "error" THEN "ready" ELSE status

\* the close event after ws.close() or after an error
OnClose(s) ==
  /\ sock[s].readyState = "CLOSING"
  /\ SetStatus(OnCloseStatus(s), [sock EXCEPT ![s].readyState = "CLOSED"])
  /\ UNCHANGED <<voiceImpl, uttered, nctx, stoppedSess>>
  /\ UNCHANGED exceptVoice

\* the server closes an open connection
ServerClose(s) ==
  /\ sock[s].readyState = "OPEN"
  /\ SetStatus(OnCloseStatus(s), [sock EXCEPT ![s].readyState = "CLOSED"])
  /\ UNCHANGED <<voiceImpl, uttered, nctx, stoppedSess>>
  /\ UNCHANGED exceptVoice

\* onSpeechStart of the hook owned by o
SpeechStart(o) ==
  /\ vadListening[o]
  /\ IF voiceImpl = "VoiceChatSession"
     THEN SetStatus("listening", sock)
     ELSE SetStatus(IF status \in {"ready", "listening"} THEN "listening" ELSE status, sock)
  /\ UNCHANGED <<voiceImpl, uttered, nctx, stoppedSess>>
  /\ UNCHANGED exceptVoice

\* the socket the speech-end callback of owner o writes to
SpeechSock(o) == IF voiceImpl = "VoiceChatSession" THEN o ELSE wsRef

\* onSpeechEnd of the hook owned by o, with the captured utterance u
SpeechEnd(o, u) ==
  /\ vadListening[o]
  /\ SpeechSock(o) # 0
  /\ LET s == SpeechSock(o) IN
     IF sock[s].readyState = "OPEN"
     THEN /\ Len(uttered[s]) < MaxUtter
          /\ uttered' = [uttered EXCEPT ![s] = Append(@, u)]
          /\ SetStatus("processing", [sock EXCEPT ![s].sent = @ \o SpeechEndSends(u)])
     ELSE /\ uttered' = uttered
          /\ SetStatus(IF voiceImpl = "VoiceChatSession" THEN "error" ELSE status, sock)
  /\ UNCHANGED <<voiceImpl, nctx, stoppedSess>>
  /\ UNCHANGED exceptVoice

\* VoiceMode (lib/api.js) cleanup(): socket, then VAD, then AudioContext
Cleanup1(st, sk) ==
  LET ws == wsRef IN
  Commit(st, voiceChatActive,
         IF ws # 0 THEN WsClose(sk, ws) ELSE sk,
         [vadListening EXCEPT ![0] = FALSE],
         [ctxOf EXCEPT ![0] = 0],
         ctxLive \ {ctxOf[0]},
         IF ws # 0
         THEN [teardown EXCEPT ![ws] =
                 @ \o <<"socket">>
                   \o (IF vadListening[0] THEN <<"capture">> ELSE <<>>)
                   \o (IF ctxOf[0] # 0 THEN <<"context">> ELSE <<>>)]
         ELSE teardown,
         0)

\* the hang-up button.  In lib/api.js ws.send on a connecting socket throws
\* and the handler ends there.
stopVoiceChat ==
  /\ status \in VisibleStatuses
  /\ stoppedSess' = stoppedSess \cup ({wsRef} \ {0})
  /\ IF voiceImpl = "VoiceChatSession"
     THEN /\ voiceChatActive
          /\ Commit("ready", FALSE, sock, vadListening, ctxOf, ctxLive, teardown, wsRef)
     ELSE /\ status # "ready"
          /\ IF wsRef # 0 /\ sock[wsRef].readyState = "CONNECTING"
             THEN SetStatus(status, sock)
             ELSE Cleanup1("ready", IF wsRef # 0
                                    THEN WsSend(sock, wsRef, Msg("stop", ""))
                                    ELSE sock)
  /\ UNCHANGED <<voiceImpl, uttered, nctx>>
  /\ UNCHANGED exceptVoice

\* the Retry button of the error panel: loadVoiceStatus() answers 'ready'
RetryVoice ==
  /\ status = "error"
  /\ SetStatus("ready", sock)
  /\ UNCHANGED <<voiceImpl, uttered, nctx, stoppedSess>>
  /\ UNCHANGED exceptVoice

VoiceNext ==
  \/ startVoiceChat
  \/ VadLoaded
  \/ \E s \in SockIds : OnOpen(s)
  \/ \E s \in SockIds : OnTimeout(s)
  \/ \E s \in SockIds : VoiceReady(s)
  \/ \E s \in SockIds : VoiceToken(s)
  \/ \E s \in SockIds : VoiceAudio(s)
  \/ \E s \in SockIds : VoiceDone(s)
  \/ \E s \in SockIds : VoiceError(s)
  \/ \E s \in SockIds : OnSockError(s)
  \/ \E s \in SockIds : OnClose(s)
  \/ \E s \in SockIds : ServerClose(s)
  \/ \E o \in Owners : SpeechStart(o)
  \/ \E o \in Owners, u \in Utterances : SpeechEnd(o, u)
  \/ stopVoiceChat
  \/ RetryVoice


\* ------------------------------------------------------------------------
\* The message of the error raised for a non-OK HTTP response
\* (ApiClient.request, ApiClient.stream, and APIClient.stream of js/chat.js)
\* ------------------------------------------------------------------------
HttpPaths == {"request", "stream", "legacyStream"}

HttpStatuses == {[status |-> "400", statusText |-> "Bad Request"],
                 [status |-> "500", statusText |-> "Internal Server Error"]}

\* an element of a detail array: { msg?, message? }
DetailItems == {[msg |-> "a", message |-> Undef],
                [msg |-> Undef, message |-> "b"],
                [msg |-> Undef, message |-> Undef]}

DetailArrays == UNION {[1..n -> DetailItems] : n \in 1..MaxDetail}

\* a field of the body: absent, a string, an array of items, or an object
Absent == [t |-> "absent", s |-> "", a |-> <<>>]
Str(v) == [t |-> "string", s |-> v, a |-> <<>>]
Arr(items) == [t |-> "array", s |-> "", a |-> items]
Obj == [t |-> "object", s |-> "", a |-> <<>>]

ErrorFields == {Absent, Str("e"), Str(""), Obj}
DetailFields == {Absent, Str("d"), Obj} \cup {Arr(items) : items \in DetailArrays}
MessageFields == {Absent, Str("m"), Obj}

\* json: the content type is application/json; readable: response.json() succeeds
HttpBodies ==
  [json : BOOLEAN, readable : {TRUE}, error : ErrorFields, detail : DetailFields,
   message : MessageFields]
  \cup [json : BOOLEAN, readable : {FALSE}, error : {Absent}, detail : {Absent},
        message : {Absent}]

NotThrown == <<"<pending>">>

\* JS truthiness of a field
FieldTruthy(f) == f.t \in {"array", "object"} \/ (f.t = "string" /\ f.s # "")

\* e.msg || e.message || JSON.stringify(e)
ItemText(e) == OrElse(e.msg, OrElse(e.message, "{}"))

\* Array.prototype.join(sep) of the texts of the items
RECURSIVE JoinItems(_, _, _)
JoinItems(items, Text(_), sep) ==
  IF items = <<>> THEN <<>>
  ELSE IF Len(items) = 1 THEN <<Text(items[1])>>
  ELSE <<Text(items[1]), sep>> \o JoinItems(Tail(items), Text, sep)

ObjectText(e) == "[object Object]"

\* String(v), as new Error(v) coerces its argument
Coerce(f) ==
  IF f.t = "string" THEN <<f.s>>
  ELSE IF f.t = "array" THEN JoinItems(f.a, ObjectText, ",")
  ELSE <<"[object Object]">>

\* JSON.stringify of a field and of the whole body
FieldJson(name, f) ==
  IF f.t = "absent" THEN <<>>
  ELSE IF f.t = "string" THEN <<name, ":", f.s>>
  ELSE IF f.t = "array" THEN <<name, ":", "[">> \o JoinItems(f.a, ItemText, ",") \o <<"]">>
  ELSE <<name, ":", "{}">>

Stringify(b) ==
  <<"{">> \o FieldJson("error", b.error) \o FieldJson("detail", b.detail)
          \o FieldJson("message", b.message) \o <<"}">>

HttpStatusLine(st) == <<"HTTP ", st.status, ": ", st.statusText>>

\* ApiClient.stream, lib/api.js 71-92
StreamMessage(b, st) ==
  IF ~b.readable THEN HttpStatusLine(st)
  ELSE IF b.error.t = "string" THEN <<b.error.s>>
  ELSE IF b.detail.t = "string" THEN <<b.detail.s>>
  ELSE IF b.detail.t = "array" THEN JoinItems(b.detail.a, ItemText, ", ")
  ELSE IF b.message.t = "string" THEN <<b.message.s>>
  ELSE Stringify(b)

\* ApiClient.request, lib/api.js 16-30: response.json() is read only for a
\* JSON content type, and its SyntaxError is rethrown as it is
RequestMessage(b, st) ==
  IF ~b.json THEN <<"Request failed: ", st.statusText>>
  ELSE IF ~b.readable THEN <<"SyntaxError">>
  ELSE IF FieldTruthy(b.error) THEN Coerce(b.error)
  ELSE IF FieldTruthy(b.detail) THEN Coerce(b.detail)
  ELSE <<"Request failed">>

\* APIClient.stream, js/chat.js 581-584
LegacyStreamMessage(b, st) ==
  IF ~b.readable THEN <<"SyntaxError">>
  ELSE IF FieldTruthy(b.error) THEN Coerce(b.error)
  ELSE IF FieldTruthy(b.detail) THEN Coerce(b.detail)
  ELSE <<"Stream request failed">>

HttpIdle ==
  /\ httpPath = "stream"
  /\ httpBody = [json |-> TRUE, readable |-> FALSE, error |-> Absent,
                 detail |-> Absent, message |-> Absent]
  /\ httpStatus = [status |-> "400", statusText |-> "Bad Request"]
  /\ httpThrown = NotThrown

\* a call whose response is not OK
HttpInit ==
  /\ httpPath \in HttpPaths
  /\ httpBody \in HttpBodies
  /\ httpStatus \in HttpStatuses
  /\ httpThrown = NotThrown

RequestFails ==
  /\ httpPath = "request"
  /\ httpThrown = NotThrown
  /\ httpThrown' = RequestMessage(httpBody, httpStatus)
  /\ UNCHANGED <<httpPath, httpBody, httpStatus>>
  /\ UNCHANGED exceptHttp

StreamFails ==
  /\ httpPath = "stream"
  /\ httpThrown = NotThrown
  /\ httpThrown' = StreamMessage(httpBody, httpStatus)
  /\ UNCHANGED <<httpPath, httpBody, httpStatus>>
  /\ UNCHANGED exceptHttp

LegacyStreamFails ==
  /\ httpPath = "legacyStream"
  /\ httpThrown = NotThrown
  /\ httpThrown' = LegacyStreamMessage(httpBody, httpStatus)
  /\ UNCHANGED <<httpPath, httpBody, httpStatus>>
  /\ UNCHANGED exceptHttp

HttpNext == RequestFails \/ StreamFails \/ LegacyStreamFails

\* ------------------------------------------------------------------------
\* PCM16 speech encoder (handleSpeechEnd, onSpeechEnd) and the decoder of
\* playAudio.  The sample is the rational pcmIn / pcmDen.
\* ------------------------------------------------------------------------
Int16Max == 32767
Int16Min == -32768
FullScale == 32768

Abs(n) == IF n < 0 THEN -n ELSE n

\* the integer part of the rational n / d (d > 0), as the Int16Array store takes it
Trunc(n, d) == IF n < 0 THEN -((-n) \div d) ELSE n \div d

\* Math.floor of the rational n / d (d > 0)
Floor(n, d) == n \div d

Clamp(lo, hi, v) == IF v < lo THEN lo ELSE IF v > hi THEN hi ELSE v

\* part_006 331-333: s < 0 ? s * 0x8000 : s * 0x7FFF, stored in an Int16Array
EncodeSession(n, d) ==
  LET s == Clamp(-d, d, n) IN
  IF s < 0 THEN Trunc(s * FullScale, d) ELSE Trunc(s * Int16Max, d)

\* lib/api.js 295: Math.max(-32768, Math.min(32767, Math.floor(audio[i] * 32768)))
EncodeVoiceMode(n, d) == Clamp(Int16Min, Int16Max, Floor(n * FullScale, d))

Encode(n, d) ==
  IF pcmImpl = "VoiceChatSession" THEN EncodeSession(n, d) ELSE EncodeVoiceMode(n, d)

PcmIdle ==
  /\ pcmImpl = "VoiceChatSession"
  /\ pcmIn = 0
  /\ pcmDen = 1
  /\ pcm16 = 0
  /\ pcmPhase = "captured"

\* a captured sample in [-1, 1]
PcmInit ==
  /\ pcmImpl \in VoiceImpls
  /\ pcmDen \in 1..MaxDenom
  /\ pcmIn \in (-pcmDen)..pcmDen
  /\ pcm16 = 0
  /\ pcmPhase = "captured"

PcmEncode ==
  /\ pcmPhase = "captured"
  /\ pcm16' = Encode(pcmIn, pcmDen)
  /\ pcmPhase' = "encoded"
  /\ UNCHANGED <<pcmImpl, pcmIn, pcmDen>>
  /\ UNCHANGED exceptPcm

\* float32[i] = pcm16[i] / 32768: the decoded sample is pcm16 / FullScale
PcmDecode ==
  /\ pcmPhase = "encoded"
  /\ pcmPhase' = "decoded"
  /\ UNCHANGED <<pcmImpl, pcmIn, pcmDen, pcm16>>
  /\ UNCHANGED exceptPcm

PcmNext == PcmEncode \/ PcmDecode

\* ------------------------------------------------------------------------
\* Branch navigation of one message position (MessageBubble, handleBranchNavigate)
\* ------------------------------------------------------------------------
Directions == {"prev", "next"}

NoInfo == [current_index |-> -1, total |-> 0]

\* a MessageBubble instance as mounted for the message with the given id
NewBubble(id) ==
  [id |-> id, branchInfo |-> NoInfo, isBranchLoading |-> FALSE, loadBranches |-> TRUE]

\* the disabled attribute of a button without the bound check
NavDisabledWhileLoading(info, loading, dir) == loading

\* disabled={isBranchLoading || branchInfo.current_index === 0} (or === total - 1)
NavDisabled(info, loading, dir) ==
  \/ loading
  \/ dir = "prev" /\ info.current_index = 0
  \/ dir = "next" /\ info.current_index = info.total - 1

\* the server's step for navigate/<direction>: it stays inside the siblings
Moved(sib, dir) ==
  [sib EXCEPT !.current_index =
     IF dir = "prev" THEN Clamp(0, sib.total - 1, @ - 1) ELSE Clamp(0, sib.total - 1, @ + 1)]

NavIdle ==
  /\ siblings = [current_index |-> 0, total |-> 1]
  /\ bubble = NewBubble(0)
  /\ navFlight = {}
  /\ navLog = <<>>
  /\ nnav = 0

\* a message with 1..MaxSiblings sibling branches is rendered; the sibling
\* that is active is the message shown, its id is its index
NavInit ==
  /\ \E total \in 1..MaxSiblings, i \in 0..(MaxSiblings - 1) :
       /\ i < total
       /\ siblings = [current_index |-> i, total |-> total]
       /\ bubble = NewBubble(i)
  /\ navFlight = {}
  /\ navLog = <<>>
  /\ nnav = 0

\* the mount effect: chatAPI.getSiblings(message.id) answers (errors are ignored)
LoadBranchesReturns(ok) ==
  /\ bubble.loadBranches
  /\ bubble' = [bubble EXCEPT !.loadBranches = FALSE,
                              !.branchInfo = IF ok THEN siblings ELSE @]
  /\ UNCHANGED <<siblings, navFlight, navLog, nnav>>
  /\ UNCHANGED exceptNav

\* a click on a branch button that is rendered and not disabled
handleNavigate(dir) ==
  /\ nnav < MaxNavs
  /\ bubble.branchInfo.total > 1
  /\ ~NavDisabled(bubble.branchInfo, bubble.isBranchLoading, dir)
  /\ bubble' = [bubble EXCEPT !.isBranchLoading = TRUE]
  /\ navFlight' = navFlight \cup
       {[n |-> nnav + 1, id |-> bubble.id, dir |-> dir, step |-> "navigate", live |-> TRUE]}
  /\ navLog' = Append(navLog,
       [dir |-> dir, info |-> bubble.branchInfo,
        busy |-> \E f \in navFlight : f.id = bubble.id /\ f.step = "navigate"])
  /\ nnav' = nnav + 1
  /\ UNCHANGED siblings
  /\ UNCHANGED exceptNav

\* a handleNavigate that goes to its finally block when the navigation failed
AfterNavigateSkips(ok) == IF ok THEN "getSiblings" ELSE "finally"

\* handleNavigate after await onBranchNavigate(...): handleBranchNavigate
\* catches the failure of navigateBranch itself, so the await never rejects
\* and chatAPI.getSiblings is called next in both cases
AfterNavigate(ok) == "getSiblings"

\* handleBranchNavigate: navigateBranch answers (or fails: toast), then the
\* conversation is reloaded when there is one; the reloaded list shows the
\* active sibling, a message with another id, so a new bubble is mounted
NavigateReturns(f, ok, reload) ==
  /\ f \in navFlight
  /\ f.step = "navigate"
  /\ LET sib == IF ok THEN Moved(siblings, f.dir) ELSE siblings
         replaced == ok /\ reload /\ f.live /\ sib.current_index # bubble.id
     IN /\ siblings' = sib
        /\ bubble' = IF replaced THEN NewBubble(sib.current_index) ELSE bubble
        /\ navFlight' = (navFlight \ {f}) \cup
             {[f EXCEPT !.step = AfterNavigate(ok), !.live = f.live /\ ~replaced]}
  /\ UNCHANGED <<navLog, nnav>>
  /\ UNCHANGED exceptNav

\* handleNavigate after the await: getSiblings answers, setBranchInfo, and
\* finally setIsBranchLoading(false); on an unmounted bubble both do nothing
SiblingsReturn(f, ok) ==
  /\ f \in navFlight
  /\ f.step = "getSiblings"
  /\ bubble' = IF f.live
               THEN [bubble EXCEPT !.branchInfo = IF ok THEN siblings ELSE @,
                                   !.isBranchLoading = FALSE]
               ELSE bubble
  /\ navFlight' = navFlight \ {f}
  /\ UNCHANGED <<siblings, navLog, nnav>>
  /\ UNCHANGED exceptNav

NavNext ==
  \/ \E ok \in BOOLEAN : LoadBranchesReturns(ok)
  \/ \E dir \in Directions : handleNavigate(dir)
  \/ \E f \in navFlight, ok \in BOOLEAN, reload \in BOOLEAN : NavigateReturns(f, ok, reload)
  \/ \E f \in navFlight, ok \in BOOLEAN : SiblingsReturn(f, ok)

\* ------------------------------------------------------------------------
\* One stream and its consumer: processStream (the locals fullContent and
\* conversationId of a single call), or handleStreamEvent of js/chat.js,
\* the callback APIClient.stream hands each event to (the data-raw text of
\* the message body and the currentConversationId of the state store)
\* ------------------------------------------------------------------------
Consumers == {"processStream", "handleStreamEvent"}

\* the token payloads of the wire: those of TokenFields and { token: 'llo' }
LoopTokenFields == TokenFields \cup {<<"llo", Undef>>}

StreamEvent(event, cid, tf) == [event |-> event, cid |-> cid, tf |-> tf]

TokenRuns == UNION {[1..n -> LoopTokenFields] : n \in 0..MaxTokens}

\* start, tokens, done
Streams ==
  { <<StreamEvent("start", c, <<Undef, Undef>>)>>
      \o [i \in 1..Len(ts) |-> StreamEvent("token", Undef, ts[i])]
      \o <<StreamEvent("done", d, <<Undef, Undef>>)>> :
    c \in ConvIds \cup {Undef}, ts \in TokenRuns, d \in ConvIds \cup {Undef} }

\* the same with an error event put in at some place
ErrorStreams ==
  UNION { { SubSeq(s, 1, k) \o <<StreamEvent("error", Undef, <<Undef, Undef>>)>>
              \o SubSeq(s, k + 1, Len(s)) : k \in 0..Len(s) } :
          s \in {t \in Streams : t[Len(t)].cid = Undef} }

LoopIdle ==
  /\ streamIterator = <<>>
  /\ fullContent = <<>>
  /\ conversationId = Undef
  /\ consumed = <<>>
  /\ consumer = "processStream"
  /\ loopEnd = "returned"

\* let fullContent = ''; let conversationId = currentConversation?.id
LoopInit ==
  /\ streamIterator \in Streams \cup ErrorStreams
  /\ fullContent = <<>>
  /\ conversationId \in ConvIds \cup {Undef}
  /\ consumed = <<>>
  /\ consumer \in Consumers
  /\ loopEnd = "none"

\* the loop takes the next event
Take(event) ==
  /\ loopEnd = "none"
  /\ streamIterator # <<>>
  /\ Head(streamIterator).event = event
  /\ streamIterator' = Tail(streamIterator)
  /\ consumed' = Append(consumed, Head(streamIterator))
  /\ UNCHANGED consumer

\* processStream: if (event === 'start') conversationId = data.conversation_id
\* handleStreamEvent: no case for 'start'
LoopStart ==
  /\ Take("start")
  /\ conversationId' = IF consumer = "processStream"
                         THEN Head(streamIterator).cid ELSE conversationId
  /\ UNCHANGED <<fullContent, loopEnd>>
  /\ UNCHANGED exceptLoop

\* currentText + data.token: an absent token is appended as 'undefined'
LegacyTokenText(tf) == IF tf[1] = Undef THEN "undefined" ELSE tf[1]

\* processStream: fullContent += data.token || data.content || ''
\* handleStreamEvent: newText = currentText + data.token
LoopToken ==
  /\ Take("token")
  /\ fullContent' =
       AppendText(fullContent,
                  IF consumer = "processStream"
                    THEN TokenText(Head(streamIterator).tf)
                    ELSE LegacyTokenText(Head(streamIterator).tf))
  /\ UNCHANGED <<conversationId, loopEnd>>
  /\ UNCHANGED exceptLoop

\* processStream: if (data?.conversation_id) conversationId = data.conversation_id
\* handleStreamEvent: if (data.conversation_id && !getState('currentConversationId'))
LoopDone ==
  /\ Take("done")
  /\ conversationId' =
       IF /\ Truthy(Head(streamIterator).cid)
          /\ consumer = "handleStreamEvent" => ~Truthy(conversationId)
         THEN Head(streamIterator).cid ELSE conversationId
  /\ UNCHANGED <<fullContent, loopEnd>>
  /\ UNCHANGED exceptLoop

\* processStream: throw new Error(...) leaves the loop, the generator's
\* finally releases the reader and the handler's catch runs.
\* handleStreamEvent: case 'error' shows a toast and returns to the read loop.
ErrorThrows(c) == IF c = "processStream" THEN "thrown" ELSE "none"

LoopError ==
  /\ Take("error")
  /\ loopEnd' = ErrorThrows(consumer)
  /\ UNCHANGED <<fullContent, conversationId>>
  /\ UNCHANGED exceptLoop

\* reader.read() resolves with done: break, finally releaseLock()
LoopReturn ==
  /\ loopEnd = "none"
  /\ streamIterator = <<>>
  /\ loopEnd' = "returned"
  /\ UNCHANGED <<streamIterator, fullContent, conversationId, consumed, consumer>>
  /\ UNCHANGED exceptLoop

LoopNext ==
  \/ LoopStart
  \/ LoopToken
  \/ LoopDone
  \/ LoopError
  \/ LoopReturn

\* ------------------------------------------------------------------------
\* Specifications: one per component, the other components at rest
\* ------------------------------------------------------------------------
RestIdle == VoiceIdle /\ HttpIdle /\ PcmIdle /\ NavIdle /\ LoopIdle

CoreIdle == SseIdle /\ ToolIdle /\ ChatIdle /\ AudioIdle

InitSSE == SseInit /\ ToolIdle /\ ChatIdle /\ AudioIdle /\ RestIdle

SpecSSE == InitSSE /\ [][SseNext]_vars

InitTools == ToolInit /\ SseIdle /\ ChatIdle /\ AudioIdle /\ RestIdle

SpecTools == InitTools /\ [][ToolNext]_vars

InitChat == ChatInit /\ SseIdle /\ ToolIdle /\ AudioIdle /\ RestIdle

SpecChat == InitChat /\ [][ChatNext]_vars

SpecChatTools == InitChat /\ [][ChatToolsNext]_vars

InitAudio == AudioInit /\ SseIdle /\ ToolIdle /\ ChatIdle /\ RestIdle

SpecAudio == InitAudio /\ [][AudioNext]_vars

InitVoice == VoiceInit /\ CoreIdle /\ HttpIdle /\ PcmIdle /\ NavIdle /\ LoopIdle

SpecVoice == InitVoice /\ [][VoiceNext]_vars

InitHttp == HttpInit /\ CoreIdle /\ VoiceIdle /\ PcmIdle /\ NavIdle /\ LoopIdle

SpecHttp == InitHttp /\ [][HttpNext]_vars

InitPcm == PcmInit /\ CoreIdle /\ VoiceIdle /\ HttpIdle /\ NavIdle /\ LoopIdle

SpecPcm == InitPcm /\ [][PcmNext]_vars

InitNav == NavInit /\ CoreIdle /\ VoiceIdle /\ HttpIdle /\ PcmIdle /\ LoopIdle

SpecNav == InitNav /\ [][NavNext]_vars

InitLoop == LoopInit /\ CoreIdle /\ VoiceIdle /\ HttpIdle /\ PcmIdle /\ NavIdle

SpecLoop == InitLoop /\ [][LoopNext]_vars

\* ------------------------------------------------------------------------
\* Properties
\* ------------------------------------------------------------------------
\* what stream yields for a list of lines walked in one chunk
RECURSIVE WalkAll(_, _)
WalkAll(ls, ce) ==
  IF ls = <<>> THEN <<>>
  ELSE LET w == WalkLine(Head(ls), ce)
       IN w.yield \o WalkAll(Tail(ls), w.ce)

\* what stream yields when the whole text arrives as a single chunk
SingleChunk(text) == WalkAll(ButLast(Split(text)), <<>>)

\* C1: for every byte sequence and every way of cutting it into chunks,
\* stream yields the same ordered (event, data) pairs as it yields when the
\* whole sequence arrives as one chunk, also when a cut falls between a
\* frame's event: line and its data: line.
C1_ChunkInvariance ==
  reader = "released" => out = SingleChunk(RenderFrames(frames))

\* the deltas, calls and results of the tool events processed so far
SentDeltas ==
  SelectSeq(toolLog, LAMBDA e : e.status = "tool_thinking_delta" /\ e.delta # "")
SentCalls == SelectSeq(toolLog, LAMBDA e : e.status = "tool_call")
SentResults == SelectSeq(toolLog, LAMBDA e : e.status = "tool_result")

\* the events processed so far are those of one round r: any deltas, one
\* tool_call and at most one tool_result for the called tool
OneRound(r) ==
  /\ \A i \in DOMAIN toolLog : toolLog[i].round = r
  /\ Len(SentCalls) = 1
  /\ Len(SentResults) <= 1
  /\ \A i \in DOMAIN SentResults : SentResults[i].tool = SentCalls[1].tool

CallRecords(r) ==
  SelectSeq(toolEvents, LAMBDA item : item.type = "call" /\ item.round = r)

\* C2: in whatever order the tool_thinking_delta, tool_call and tool_result
\* events of one round arrive, once they are processed the call record of
\* the round holds all the thinking text sent and the result sent.
C2_NoDataDropped ==
  \A r \in 1..MaxRound :
    OneRound(r) =>
      /\ Len(CallRecords(r)) = 1
      /\ CallRecords(r)[1].thinking = [i \in 1..Len(SentDeltas) |-> SentDeltas[i].delta]
      /\ Len(SentResults) = 1 => CallRecords(r)[1].result = SentResults[1].result

\* C3: at most one generation stream is being consumed by the chat view at
\* any time (a new request cancels the earlier stream before it is read).
C3_AtMostOneStream == Cardinality({r \in ReqIds : Active(r)}) <= 1

\* C4: within one request the conversation id is the one carried by the
\* first start, status or done event that carried one; no later event
\* replaces it by another id or by an absent value.
C4_ConversationIdFixed ==
  \A r \in ReqIds :
    (Active(r) /\ Truthy(req[r].firstId)) => req[r].conversationId = req[r].firstId

\* C5: each buffer's scheduled start is at least the output-device time at
\* the moment of scheduling and at least the previous buffer's start plus
\* its duration, and equals the latter whenever the buffer arrives before
\* the previous one has finished.
C5_GaplessSchedule ==
  \A i \in DOMAIN schedule :
    /\ schedule[i].start >= schedule[i].at
    /\ (i > 1 /\ schedule[i - 1].ctx = schedule[i].ctx) =>
         LET prevEnd == schedule[i - 1].start + schedule[i - 1].duration
         IN /\ schedule[i].start >= prevEnd
            /\ schedule[i].at <= prevEnd => schedule[i].start = prevEnd

\* C5 witness: two 0.5 s buffers arriving 0.1 s apart, the second scheduled
\* at first_start + 0.5 s
C5_Witness ==
  /\ Len(schedule) >= 2
  /\ schedule[1].ctx = schedule[2].ctx
  /\ schedule[1].duration = 5
  /\ schedule[2].duration = 5
  /\ schedule[2].at = schedule[1].at + 1
  /\ schedule[2].start = schedule[1].start + 5

\* C6: after the user stops a generation no further event of the stopped
\* stream is applied (its tokens no longer change the streamed text) and
\* its reader is released.
C6_StopIsFinal ==
  [][\A r \in stopped :
       /\ req[r].st = "ended"
       /\ \A tf \in TokenFields : ~TokenEv(r, tf)]_vars

\* C7: stopping a generation leaves the text assembled from the tokens
\* received before the stop in place.
C7_StopKeepsText == [][handleStop => streamingContent' = streamingContent]_vars

\* C8: a user-initiated stop never produces a failure toast: a request that
\* ends with the abort ends silently, and every toast reports a failure
\* other than the abort.
C8_AbortIsSilent ==
  \A r \in ReqIds :
    /\ req[r].outcome = "AbortError" => req[r].toast = Undef
    /\ req[r].toast # Undef => req[r].outcome \in {"Error", "TypeError"}

\* C8 witness: the user pressed stop while a request was streaming and that
\* request has ended with the abort
C8_Witness ==
  \E r \in stopped : req[r].outcome = "AbortError" /\ nev > 0

\* C9: when the backend sends an error event, the failure message shown is
\* the backend's own text, whether the payload carries it in error, in
\* message or only as a raw string.
C9_BackendTextShown ==
  \A r \in ReqIds :
    (req[r].outcome = "Error" /\ Truthy(req[r].sent)) => req[r].toast = req[r].sent

\* every frame on the wire has an event: line and a data: line with content
AllFramesComplete ==
  \A i \in DOMAIN frames :
    frames[i].ev # NoLine /\ frames[i].data # NoLine /\ frames[i].data # <<>>

\* C10: a data: line whose content is not valid JSON is yielded as
\* {event, data: {raw: <the data string>}} instead of throwing, and every
\* later well-formed frame is still yielded with its parsed payload.
C10_RawFallback ==
  (reader = "released" /\ AllFramesComplete) =>
    out = [i \in 1..Len(frames) |->
             [event |-> frames[i].ev,
              data |-> IF JSONValid(frames[i].data)
                         THEN [kind |-> "json", text |-> frames[i].data]
                         ELSE [kind |-> "raw", text |-> frames[i].data]]]

\* the sockets that are connecting or open
LiveSockets == {s \in SockIds : sock[s].readyState \in {"CONNECTING", "OPEN"}}

\* C11: at most one voice WebSocket, one microphone capture and one audio
\* output context are live at any time: a session that was stopped or
\* unmounted has its socket closed and its capture and context released
\* before another session acquires them.
C11_OneLiveSession ==
  /\ Cardinality(LiveSockets) <= 1
  /\ Cardinality({o \in Owners : vadListening[o]}) <= 1
  /\ Cardinality(ctxLive) <= 1

\* the socket of the session on screen
CurrentReady == wsRef # 0 /\ sock[wsRef].gotReady

\* C12: a voice session is in status listening, and has sent captured
\* audio, only after the server's ready message arrived on its connection.
C12_ListenAfterReady ==
  /\ status = "listening" => CurrentReady
  /\ \A s \in SockIds :
       (\E i \in 1..Len(sock[s].sent) : sock[s].sent[i].type = "binary") => sock[s].gotReady

\* C13: once the status is error it stays error until the user restarts:
\* only the Retry button moves it away.
C13_ErrorIsTerminal ==
  [][(status = "error" /\ status' # "error") => RetryVoice]_vars

\* position of the first entry e in the sequence q, 0 when there is none
IndexOf(q, e) == IF \E i \in 1..Len(q) : q[i] = e
                 THEN CHOOSE i \in 1..Len(q) : q[i] = e /\ \A j \in 1..(i - 1) : q[j] # e
                 ELSE 0

\* C14: on an explicit stop the client first sends a stop control message,
\* then releases the microphone capture, and closes the WebSocket only after
\* the capture is released.
C14_StopOrder ==
  \A s \in stoppedSess :
    IndexOf(teardown[s], "socket") # 0 =>
      /\ \E i \in 1..Len(sock[s].sent) : sock[s].sent[i].type = "stop"
      /\ IndexOf(teardown[s], "capture") # 0 =>
           IndexOf(teardown[s], "capture") < IndexOf(teardown[s], "socket")

\* a socket error, the connect timeout, or the server closing the connection
TransportFailure ==
  \E s \in SockIds :
    \/ OnSockError(s)
    \/ OnTimeout(s) /\ sock[s].readyState = "CONNECTING"
    \/ ServerClose(s)

\* C15: every transport failure of a voice session puts the session in the
\* error status, and a new socket is opened only by the user (the call
\* button or Retry), never by the client on its own.
C15_FailureIsReported ==
  [][/\ TransportFailure => status' = "error"
     /\ Used(sock') > Used(sock) => (startVoiceChat \/ RetryVoice)]_vars

\* C16: on every voice WebSocket that opened exactly one config message is
\* sent, and it is the first message: no audio frame or end-of-speech
\* message precedes it; nothing is sent on a socket that has not opened.
C16_ConfigFirst ==
  \A s \in SockIds :
    LET m == sock[s].sent IN
    IF sock[s].opened
    THEN /\ Len(m) >= 1
         /\ m[1].type = "config"
         /\ \A i \in 2..Len(m) : m[i].type # "config"
    ELSE m = <<>>

\* C16 witness: an utterance was sent on a socket after its config
C16_Witness ==
  \E s \in SockIds :
    /\ Len(sock[s].sent) >= 3
    /\ sock[s].sent[1].type = "config"
    /\ sock[s].sent[2].type = "binary"

\* every binary frame is directly followed by one end-of-speech message,
\* every end-of-speech message directly follows a binary frame, and the
\* binary frames are the utterances, each whole, in order
FramesPaired ==
  \A s \in SockIds :
    LET m == sock[s].sent
        IsBinary(x) == x.type = "binary"
        b == SelectSeq(m, IsBinary)
    IN /\ [i \in 1..Len(b) |-> b[i].audio] = uttered[s]
       /\ \A i \in 1..Len(m) :
            /\ m[i].type = "binary" => (i < Len(m) /\ m[i + 1].type = EndOfSpeech)
            /\ m[i].type \in {"end_speech", "speech_end"} => (i > 1 /\ m[i - 1].type = "binary")

\* C17: every binary audio frame sent is one whole utterance and is directly
\* followed on the same socket by exactly one end-of-speech message; no
\* end-of-speech message is sent without a binary frame directly before it,
\* and speech start sends nothing.
C17_FrameThenEndOfSpeech ==
  [][/\ FramesPaired'
     /\ (\E o \in Owners : SpeechStart(o)) =>
          \A s \in SockIds : sock'[s].sent = sock[s].sent]_vars

\* C17 witness: two utterances were sent on one socket and speech started again
C17_Witness ==
  \E s \in SockIds : Len(uttered[s]) = 2 /\ Len(sock[s].sent) = 5 /\ status = "listening"

\* the message the error-body rule prescribes for a non-OK response
PrescribedMessage(b, st) ==
  IF ~b.readable THEN <<"HTTP ", st.status, ": ", st.statusText>>
  ELSE IF b.error.t = "string" THEN <<b.error.s>>
  ELSE IF b.detail.t = "string" THEN <<b.detail.s>>
  ELSE IF b.detail.t = "array" THEN JoinItems(b.detail.a, ItemText, ", ")
  ELSE IF b.message.t = "string" THEN <<b.message.s>>
  ELSE Stringify(b)

\* C18: for every non-OK HTTP response, in request and in stream, the
\* message of the error raised is body.error if it is a string, else
\* body.detail if a string, else the joined msg / message of a detail array,
\* else body.message if a string, else the JSON text of the body, and
\* "HTTP <status>: <statusText>" when the body cannot be read.
C18_ErrorMessage ==
  httpThrown # NotThrown => httpThrown = PrescribedMessage(httpBody, httpStatus)

\* C19: encoding a sample x in [-1, 1] to Int16 with the speech encoder and
\* dividing by 32768 gives a value within 1/32768 of x
\* (x = pcmIn / pcmDen, so |x - pcm16 / 32768| <= 1 / 32768 is
\* |pcmIn * 32768 - pcm16 * pcmDen| <= pcmDen).
C19_RoundTrip ==
  pcmPhase = "decoded" => Abs(pcmIn * FullScale - pcm16 * pcmDen) <= pcmDen

\* C20: the UI never issues navigate(prev) for a message whose last fetched
\* current_index is 0, never navigate(next) when it is total - 1, and never
\* a second navigation from a message while an earlier one is in flight.
C20_NavigateInBounds ==
  \A i \in 1..Len(navLog) :
    /\ navLog[i].dir = "prev" => navLog[i].info.current_index # 0
    /\ navLog[i].dir = "next" => navLog[i].info.current_index # navLog[i].info.total - 1
    /\ ~navLog[i].busy

\* C20 witness: a navigation completed, its bubble left an end of the range
\* and a further navigation was issued
C20_Witness ==
  /\ Len(navLog) >= 2
  /\ \E f \in navFlight : f.step = "navigate"
  /\ \E i \in 1..Len(navLog) : navLog[i].info.current_index \in {0, navLog[i].info.total - 1}

\* the payload of a token event: its token field, else its content field
Payload(tf) == IF tf[1] # Undef THEN tf[1] ELSE IF tf[2] # Undef THEN tf[2] ELSE ""

\* the in-order concatenation of the token payloads of a run of events
RECURSIVE Concatenation(_)
Concatenation(evs) ==
  IF evs = <<>> THEN <<>>
  ELSE (IF Head(evs).event = "token" /\ Payload(Head(evs).tf) # ""
          THEN <<Payload(Head(evs).tf)>> ELSE <<>>)
       \o Concatenation(Tail(evs))

HelloStream ==
  <<StreamEvent("start", "c1", <<Undef, Undef>>),
    StreamEvent("token", Undef, <<"He", Undef>>),
    StreamEvent("token", Undef, <<"llo", Undef>>),
    StreamEvent("done", "c1", <<Undef, Undef>>)>>

C22_SameFrame ==
  \A i \in DOMAIN out :
    \E k \in DOMAIN frames :
      /\ frames[k].ev = out[i].event
      /\ frames[k].data # NoLine
      /\ frames[k].data = out[i].data.text

\* the tool_call events of round r processed so far
CallsSent(r) ==
  SelectSeq(toolLog, LAMBDA e : e.status = "tool_call" /\ e.round = r)

\* the thinking text sent for round r, in arrival order
ThinkingSent(log, r) ==
  LET ds == SelectSeq(log, LAMBDA e : e.status = "tool_thinking_delta"
                                      /\ e.round = r /\ e.delta # "")
  IN [i \in 1..Len(ds) |-> ds[i].delta]

\* the pending placeholders of round r in the tool-event list
Pending(r) ==
  SelectSeq(toolEvents, LAMBDA item : item.type = "thinking_pending" /\ item.round = r)

\* C23: while no tool_call for round r has arrived, the thinking text sent
\* for r sits, in arrival order, in exactly one pending placeholder for r;
\* right after the first tool_call for r is processed, the new call record's
\* thinking is that text and no pending placeholder for r is left.
C23_ThinkingMoved ==
  \A r \in 1..MaxRound :
    /\ CallsSent(r) = <<>> =>
         IF ThinkingSent(toolLog, r) = <<>>
           THEN Pending(r) = <<>>
           ELSE Len(Pending(r)) = 1 /\ Pending(r)[1].thinking = ThinkingSent(toolLog, r)
    /\ (/\ Len(CallsSent(r)) = 1
        /\ Last(toolLog).status = "tool_call"
        /\ Last(toolLog).round = r) =>
         /\ Last(toolEvents).type = "call"
         /\ Last(toolEvents).round = r
         /\ Last(toolEvents).thinking = ThinkingSent(toolLog, r)
         /\ Pending(r) = <<>>

\* C23 witness: two deltas of one round, then the round's tool_call
C23_Witness ==
  /\ Len(toolLog) = 3
  /\ Last(toolLog).status = "tool_call"
  /\ Len(ThinkingSent(toolLog, Last(toolLog).round)) = 2

\* the call records for tool T to which no result has been attached yet
OpenCalls(T) ==
  {i \in DOMAIN toolEvents :
     /\ toolEvents[i].type = "call"
     /\ toolEvents[i].tool = T
     /\ toolEvents[i].status # "complete"}

\* the step processes a tool_result event
ResultStep ==
  /\ Len(toolLog') = Len(toolLog) + 1
  /\ Last(toolLog').status = "tool_result"

\* C24: a tool_result naming tool T is attached to the most recently added
\* call record for T that has no result yet, which becomes complete; no
\* other call record is touched, and a record that already has a result
\* attached is never the target.
C24_LastOpenCall ==
  [][ResultStep =>
       LET e == Last(toolLog')
           open == OpenCalls(e.tool)
       IN IF open # {}
            THEN LET k == CHOOSE i \in open : \A j \in open : j <= i
                 IN toolEvents' = [toolEvents EXCEPT ![k].result = e.result,
                                                     ![k].status = "complete"]
            ELSE \A i \in DOMAIN toolEvents : toolEvents'[i] = toolEvents[i]]_vars

\* C25: a call record to which a result has been attached (status complete)
\* is frozen: every later event leaves its thinking, arguments and result
\* as they are, also when the attached result is the empty string.
C25_CompleteIsFrozen ==
  [][\A i \in DOMAIN toolEvents :
       (toolEvents[i].type = "call" /\ toolEvents[i].status = "complete") =>
         \E j \in DOMAIN toolEvents' :
           /\ j <= i
           /\ toolEvents'[j].type = "call"
           /\ toolEvents'[j].tool = toolEvents[i].tool
           /\ toolEvents'[j].round = toolEvents[i].round
           /\ toolEvents'[j].thinking = toolEvents[i].thinking
           /\ toolEvents'[j].arguments = toolEvents[i].arguments
           /\ toolEvents'[j].result = toolEvents[i].result]_vars

\* every tool_result of the log comes after a tool_call of its tool and round
ResultsFollowCalls(log) ==
  \A i \in DOMAIN log :
    log[i].status = "tool_result" =>
      \E j \in 1..(i - 1) :
        /\ log[j].status = "tool_call"
        /\ log[j].tool = log[i].tool
        /\ log[j].round = log[i].round

\* C30: when every tool_result arrives after the tool_call it answers, a
\* tool_result carrying round r changes only a call record of round r,
\* never a record of another round that used the same tool name.
C30_ResultKeepsRound ==
  [][(ResultStep /\ ResultsFollowCalls(toolLog')) =>
       \A i \in DOMAIN toolEvents :
         toolEvents'[i] # toolEvents[i] =>
           toolEvents[i].round = Last(toolLog').round]_vars

\* the step starts a new request (send, edit or regenerate)
RequestStarts == nreq' = nreq + 1

\* the step ends the handling of a done event
DoneHandled ==
  \/ \E r \in ReqIds : LoadReturn(r)
  \/ \E r \in ReqIds, cid \in ConvIds \cup {Undef} :
       DoneEv(r, cid) /\ req'[r].st # "loading"

\* C26: in the chat view that keeps tool events, the tool-event list is
\* empty once a done event has been handled and empty when a new request
\* starts, whatever ended the request before it.
C26_ToolEventsCleared ==
  [][(view = "ChatView" /\ (RequestStarts \/ DoneHandled)) => toolEvents' = <<>>]_vars

\* C26 witness: the first request processed a tool_call and then failed,
\* a second request has started and the list is empty
C26_Witness ==
  /\ view = "ChatView"
  /\ nev = MaxEvents
  /\ toolLog # <<>>
  /\ req[1].outcome = "Error"
  /\ req[2].st = "reading"
  /\ toolEvents = <<>>

\* C27: an error event is the last event a stream's consumer processes:
\* once it has been processed the loop has been left by a throw (the reader
\* is released and the request ends as a failure) and no later event of
\* the stream is processed.
C27_ErrorEndsStream ==
  \A i \in DOMAIN consumed :
    consumed[i].event = "error" => i = Len(consumed) /\ loopEnd = "thrown"

\* C27 witness: processStream was handed an error event in the middle of a
\* stream
C27_Witness ==
  /\ consumer = "processStream"
  /\ consumed # <<>>
  /\ consumed[Len(consumed)].event = "error"
  /\ streamIterator # <<>>
  /\ loopEnd = "thrown"

C29_ControllerOfActiveStream ==
  \A r \in ReqIds : Active(r) => abortControllerRef = r
====
